---- MODULE Spec2Model ----
(***************************************************************************)
(* Grammar fixer core: the reconciliation of LLM suggestions with exact    *)
(* character offsets (src/src/grammarFixer.js) and the application of a    *)
(* batch of corrections to a text (applyCorrections of the CLI entry       *)
(* point, src/unnamed/part_002), fixGrammar calls in flight together, and  *)
(* the HTTP server in front of both (src/src/server.js).                   *)
(*                                                                         *)
(* Strings are sequences of one-character strings.  TLA+ sequences are     *)
(* 1-based, JavaScript indices are 0-based: index k of the source is       *)
(* element k+1 of the sequence.                                            *)
(***************************************************************************)
EXTENDS Integers, Sequences, FiniteSets, TLC

VARIABLES
    pc,                   \* position of the fixGrammar call
    text,                 \* fixGrammar's argument `text`
    ollamaRequest,        \* the host and model of the ollama.generate call made
    ollama,               \* how ollama.generate settled: "pending", "resolved", "rejected"
    responseText,         \* response.response of ollama.generate, as tokens
    ollamaError,          \* the error ollama.generate rejected with
    corrections,          \* fixGrammar's `corrections` (result of analyzeTextWithOllama)
    formattedCorrections, \* the batch fixGrammar resolves to
    error,                \* the error fixGrammar rejects with
    applyPc,              \* position of the applyCorrections call
    applyText,            \* applyCorrections' argument `text`
    applyBatch,           \* applyCorrections' argument `corrections`
    correctedText,        \* applyCorrections' return value
    callerCorrections,    \* the caller's corrections array after the call
    resolvePc,            \* position of the findSubstringPosition call
    resolveText,          \* findSubstringPosition's argument `text`
    resolveSubstring,     \* findSubstringPosition's argument `substring`
    resolveStartIndex,    \* its argument `startIndex`, Undefined when omitted
    resolveResult,        \* findSubstringPosition's return value
    calls,                \* the fixGrammar calls in flight: each call's own locals
    env,                  \* process.env of the server process
    startupLog,           \* the Ollama host and model startServer logs
    srvPc,                \* position of the server and of its request handler
    request,              \* method and url of the request being handled
    requestBody,          \* the request body as received
    responses,            \* the responses written for the request, in order
    listening,            \* the server accepts connections
    connections,          \* the connections open on the server
    signals,              \* the SIGTERM and SIGINT signals received, in order
    closeCallbacks,       \* callbacks of server.close waiting for 'close'
    timers,               \* forced-shutdown timers that are set
    exit,                 \* whether process.exit was called, and its code
    cliPc,                \* position of the command line program
    argv,                 \* process.argv.slice(2)
    inputSource,          \* main's inputSource
    inputText,            \* main's inputText, Null until a text is read
    pending,              \* the texts main has still to pass to processText
    processTextCalls,     \* the calls of processText made, in order
    console,              \* what was written to console.log and console.error
    cliExit               \* whether the program called process.exit

vars == <<pc, text, ollamaRequest, ollama, responseText, ollamaError, corrections,
          formattedCorrections, error,
          applyPc, applyText, applyBatch, correctedText, callerCorrections,
          resolvePc, resolveText, resolveSubstring, resolveStartIndex,
          resolveResult, calls,
          env, startupLog, srvPc, request, requestBody, responses,
          listening, connections, signals, closeCallbacks, timers, exit,
          cliPc, argv, inputSource, inputText, pending, processTextCalls,
          console, cliExit>>

fixVars == <<pc, text, ollamaRequest, ollama, responseText, ollamaError, corrections,
             formattedCorrections, error>>
applyVars == <<applyPc, applyText, applyBatch, correctedText,
               callerCorrections>>
resolveVars == <<resolvePc, resolveText, resolveSubstring, resolveStartIndex,
                 resolveResult>>

serverVars == <<env, startupLog, srvPc, request, requestBody, responses>>
shutdownVars == <<connections, signals, closeCallbacks, timers, exit>>
cliVars == <<cliPc, argv, inputSource, inputText, pending, processTextCalls,
             console, cliExit>>

\* what a call of one function leaves alone
notFixVars == <<applyVars, resolveVars, calls, serverVars, listening, shutdownVars,
      cliVars>>
notApplyVars == <<fixVars, resolveVars, calls, serverVars, listening, shutdownVars,
      cliVars>>
notResolveVars == <<fixVars, applyVars, calls, serverVars, listening, shutdownVars,
      cliVars>>
notCallsVars ==
    <<fixVars, applyVars, resolveVars, serverVars, listening, shutdownVars,
      cliVars>>
notServerVars == <<applyVars, resolveVars, calls, shutdownVars, cliVars>>
notCliVars ==
    <<applyVars, resolveVars, calls, serverVars, listening, shutdownVars>>

----------------------------------------------------------------------------
(* Bounds of the model. *)

MaxTextLen == 4       \* longest text given to fixGrammar
MaxSuggestions == 2   \* most entries in the LLM's JSON array
MaxApplyLen == 4      \* longest text given to applyCorrections
MaxBatch == 2         \* most corrections given to applyCorrections
MaxResolveLen == 3    \* longest text given to findSubstringPosition
MaxSubstringLen == 2  \* longest substring given to findSubstringPosition
MaxCalls == 2         \* most fixGrammar calls in flight at the same time
MaxConnections == 2   \* most connections open on the server
MaxSignals == 2       \* most shutdown signals the process receives

----------------------------------------------------------------------------
(* JavaScript values and string primitives. *)

Str(s) == [t |-> "string", s |-> s, n |-> 0]
Num(n) == [t |-> "number", s |-> <<>>, n |-> n]
Undefined == [t |-> "undefined", s |-> <<>>, n |-> 0]
Null == [t |-> "null", s |-> <<>>, n |-> 0]

\* typeof v
TypeOf(v) == IF v.t = "null" THEN "object" ELSE v.t

\* ToBoolean(v): "", 0, null and undefined are falsy
Truthy(v) ==
    \/ v.t = "string" /\ v.s # <<>>
    \/ v.t = "number" /\ v.n # 0

Min(a, b) == IF a < b THEN a ELSE b
Max(a, b) == IF a > b THEN a ELSE b
Clamp(k, len) == Max(0, Min(k, len))

\* String.prototype.substring(a, b): both clamped to [0, length], swapped
\* when a > b
Substring(s, a, b) ==
    LET ca == Clamp(a, Len(s))
        cb == Clamp(b, Len(s))
    IN SubSeq(s, Min(ca, cb) + 1, Max(ca, cb))

\* String.prototype.substring(a): from a to the end
SubstringFrom(s, a) == SubSeq(s, Clamp(a, Len(s)) + 1, Len(s))

\* String.prototype.indexOf(sub, from): a left-to-right scan from the
\* clamped position, -1 when the scan runs off the end
RECURSIVE IndexOfScan(_, _, _)
IndexOfScan(s, sub, k) ==
    IF k + Len(sub) > Len(s) THEN -1
    ELSE IF SubSeq(s, k + 1, k + Len(sub)) = sub THEN k
    ELSE IndexOfScan(s, sub, k + 1)

IndexOf(s, sub, from) == IndexOfScan(s, sub, Clamp(from, Len(s)))

----------------------------------------------------------------------------
(* Abrupt and normal completion of a function body. *)

NoError == [name |-> "none", code |-> "", causeCode |-> "", message |-> ""]
Normal(v) == [threw |-> FALSE, value |-> v, error |-> NoError]
Throw(e) == [threw |-> TRUE, value |-> <<>>, error |-> e]

TypeErrorNull ==
    [name |-> "TypeError", code |-> "", causeCode |-> "",
     message |-> "Cannot read properties of null (reading 'oldText')"]
SyntaxErrorJSON ==
    [name |-> "SyntaxError", code |-> "", causeCode |-> "",
     message |-> "Unexpected token in JSON"]
InvalidInputError ==
    [name |-> "Error", code |-> "", causeCode |-> "",
     message |-> "Invalid input: text must be a non-empty string"]
UnableToConnectError ==
    [name |-> "Error", code |-> "", causeCode |-> "",
     message |-> "Unable to connect to Ollama. Please ensure Ollama is running (ollama serve)"]

----------------------------------------------------------------------------
(* The LLM's raw text, as tokens: brackets, commas, words of prose, and    *)
(* JSON values (an object, null or a number is one token).                 *)

\* a JSON value that can be an entry of the array
Entry(kind, oldText, newText, explanation) ==
    [kind |-> kind, oldText |-> oldText, newText |-> newText,
     explanation |-> explanation]
Obj(oldText, newText, explanation) == Entry("object", oldText, newText, explanation)
NullEntry == Entry("null", Undefined, Undefined, Undefined)
NumberEntry == Entry("number", Undefined, Undefined, Undefined)
ArrayEntry == Entry("array", Undefined, Undefined, Undefined)

\* a token; val is the JSON value of a "value" token and NoValue otherwise
NoValue == Entry("none", Undefined, Undefined, Undefined)
Tok(tok, val) == [tok |-> tok, val |-> val]
LB == Tok("[", NoValue)
RB == Tok("]", NoValue)
Comma == Tok(",", NoValue)
Prose == Tok("prose", NoValue)
Val(e) == Tok("value", e)

\* index (1-based) of the first / last token `tok` of toks, 0 when absent
RECURSIVE FirstIndexOfTok(_, _, _)
FirstIndexOfTok(toks, tok, i) ==
    IF i > Len(toks) THEN 0
    ELSE IF toks[i].tok = tok THEN i
    ELSE FirstIndexOfTok(toks, tok, i + 1)

RECURSIVE LastIndexOfTok(_, _, _)
LastIndexOfTok(toks, tok, i) ==
    IF i < 1 THEN 0
    ELSE IF toks[i].tok = tok THEN i
    ELSE LastIndexOfTok(toks, tok, i - 1)

\* responseText.match(/\[[\s\S]*\]/): the leftmost '[' and, the star being
\* greedy, everything up to the LAST ']' after it; null when there is none
RegexMatch(toks) ==
    LET i == FirstIndexOfTok(toks, "[", 1)
        j == LastIndexOfTok(toks, "]", Len(toks))
    IN IF i # 0 /\ j > i
       THEN [matched |-> TRUE, region |-> SubSeq(toks, i, j)]
       ELSE [matched |-> FALSE, region |-> <<>>]

\* JSON.parse on tokens.  ParseArray reads the elements of an array whose
\* '[' has been consumed; expect is "first" (value or ']'), "value" (after
\* a comma) or "sep" (',' or ']').  A nested array is one entry.
RECURSIVE ParseArray(_, _, _, _)
ParseArray(toks, i, acc, expect) ==
    IF i > Len(toks) THEN [ok |-> FALSE, elems |-> <<>>, next |-> i]
    ELSE LET t == toks[i] IN
      CASE t.tok = "]" /\ expect \in {"first", "sep"} ->
             [ok |-> TRUE, elems |-> acc, next |-> i + 1]
        [] t.tok = "," /\ expect = "sep" ->
             ParseArray(toks, i + 1, acc, "value")
        [] t.tok = "value" /\ expect \in {"first", "value"} ->
             ParseArray(toks, i + 1, Append(acc, t.val), "sep")
        [] t.tok = "[" /\ expect \in {"first", "value"} ->
             LET inner == ParseArray(toks, i + 1, <<>>, "first") IN
             IF inner.ok
             THEN ParseArray(toks, inner.next, Append(acc, ArrayEntry), "sep")
             ELSE [ok |-> FALSE, elems |-> <<>>, next |-> i]
        [] OTHER -> [ok |-> FALSE, elems |-> <<>>, next |-> i]

\* JSON.parse(jsonMatch[0]): throws SyntaxError unless the whole region is
\* one JSON value
JSONParse(toks) ==
    IF toks = <<>> THEN [ok |-> FALSE, isArray |-> FALSE, elems |-> <<>>]
    ELSE IF toks[1].tok = "value"
    THEN [ok |-> Len(toks) = 1, isArray |-> FALSE, elems |-> <<>>]
    ELSE IF toks[1].tok = "["
    THEN LET r == ParseArray(toks, 2, <<>>, "first") IN
         IF r.ok /\ r.next = Len(toks) + 1
         THEN [ok |-> TRUE, isArray |-> TRUE, elems |-> r.elems]
         ELSE [ok |-> FALSE, isArray |-> FALSE, elems |-> <<>>]
    ELSE [ok |-> FALSE, isArray |-> FALSE, elems |-> <<>>]

\* variant: the filter tests the types only, not that the texts are non-empty
FilterPredicate_TypeofOnly(correction) ==
    /\ TypeOf(correction.oldText) = "string"
    /\ TypeOf(correction.newText) = "string"

\* the callback of corrections.filter (lines 129-134)
FilterPredicate(correction) ==
    /\ Truthy(correction.oldText)
    /\ Truthy(correction.newText)
    /\ TypeOf(correction.oldText) = "string"
    /\ TypeOf(correction.newText) = "string"

\* the body of parseOllamaResponse's try block (lines 114-134).  Reading
\* correction.oldText of a null entry throws a TypeError, which leaves
\* filter at once.
parseOllamaResponseBody(toks) ==
    LET jsonMatch == RegexMatch(toks) IN
    IF ~jsonMatch.matched THEN Normal(<<>>)
    ELSE LET parsed == JSONParse(jsonMatch.region) IN
      IF ~parsed.ok THEN Throw(SyntaxErrorJSON)
      ELSE IF ~parsed.isArray THEN Normal(<<>>)
      ELSE IF \E i \in 1..Len(parsed.elems) : parsed.elems[i].kind = "null"
      THEN Throw(TypeErrorNull)
      ELSE Normal(SelectSeq(parsed.elems, FilterPredicate))

\* variant: no catch block, a throw of the body leaves the function
parseOllamaResponse_NoCatch(toks) == parseOllamaResponseBody(toks)

\* parseOllamaResponse: the catch block (lines 135-138) turns every throw
\* of the body into an empty list
parseOllamaResponse(toks) ==
    LET r == parseOllamaResponseBody(toks) IN
    IF r.threw THEN Normal(<<>>) ELSE r

----------------------------------------------------------------------------
(* The reconciler: processCorrections and its helpers. *)

\* variant: the -1 of indexOf is not tested
findSubstringPosition_NoNullCheck(txt, substring, startIndex) ==
    LET start == IndexOf(txt, substring, startIndex) IN
    [found |-> TRUE, start |-> start, end |-> start + Len(substring)]

\* variant: the search always starts at the beginning of the text
findSubstringPosition_IgnoresStart(txt, substring, startIndex) ==
    LET start == IndexOf(txt, substring, 0) IN
    IF start = -1
    THEN [found |-> FALSE, start |-> 0, end |-> 0]
    ELSE [found |-> TRUE, start |-> start, end |-> start + Len(substring)]

\* variant: an empty substring is treated as not found
findSubstringPosition_RejectsEmpty(txt, substring, startIndex) ==
    LET start == IndexOf(txt, substring, startIndex) IN
    IF start = -1 \/ substring = <<>>
    THEN [found |-> FALSE, start |-> 0, end |-> 0]
    ELSE [found |-> TRUE, start |-> start, end |-> start + Len(substring)]

\* variant: when nothing is found from startIndex on, the search is
\* repeated from the beginning of the text
findSubstringPosition_FallsBack(txt, substring, startIndex) ==
    LET forward == IndexOf(txt, substring, startIndex)
        start == IF forward = -1 THEN IndexOf(txt, substring, 0) ELSE forward
    IN IF start = -1
       THEN [found |-> FALSE, start |-> 0, end |-> 0]
       ELSE [found |-> TRUE, start |-> start, end |-> start + Len(substring)]

\* the default of the parameter startIndex = 0 (line 195)
StartIndexOrDefault(v) == IF v = Undefined THEN 0 ELSE v.n

\* findSubstringPosition(text, substring, startIndex): null when indexOf
\* returns -1
findSubstringPosition(txt, substring, startIndex) ==
    LET start == IndexOf(txt, substring, startIndex) IN
    IF start = -1
    THEN [found |-> FALSE, start |-> 0, end |-> 0]
    ELSE [found |-> TRUE, start |-> start, end |-> start + Len(substring)]

\* isValidCorrection: location.start and location.end are numbers by
\* construction of a correction record; oldText and newText must be strings
isValidCorrection(correction) ==
    /\ TypeOf(correction.oldText) = "string"
    /\ TypeOf(correction.newText) = "string"

\* variant: newText copied from the suggestion's oldText
FormatCorrection_CopyPaste(position, correction) ==
    [location |-> [start |-> position.start, end |-> position.end],
     oldText |-> correction.oldText,
     newText |-> correction.oldText,
     explanation |-> IF Truthy(correction.explanation)
                     THEN correction.explanation ELSE Undefined]

\* the formattedCorrection object of lines 158-170
FormatCorrection(position, correction) ==
    [location |-> [start |-> position.start, end |-> position.end],
     oldText |-> correction.oldText,
     newText |-> correction.newText,
     explanation |-> IF Truthy(correction.explanation)
                     THEN correction.explanation ELSE Undefined]

\* variants: the cursor stays at the match's start / moves one character on
AdvanceCursor_NoAdvance(position) == position.start
AdvanceCursor_ByOne(position) == position.start + 1

\* where the search cursor moves once a correction is accepted (line 176)
AdvanceCursor(position) == position.end

\* variant: a suggestion that is not found moves the cursor one character on
ProcessOne_DropAdvances(originalText, st, correction) ==
    LET position == findSubstringPosition(originalText, correction.oldText.s,
                                          st.searchStartIndex)
    IN IF position.found
       THEN LET formattedCorrection == FormatCorrection(position, correction) IN
            IF isValidCorrection(formattedCorrection)
            THEN [formattedCorrections |->
                      Append(st.formattedCorrections, formattedCorrection),
                  searchStartIndex |-> AdvanceCursor(position)]
            ELSE st
       ELSE [st EXCEPT !.searchStartIndex = @ + 1]

\* one iteration of the for loop (lines 153-181) on the loop state
\* st = [formattedCorrections, searchStartIndex]
ProcessOne(originalText, st, correction) ==
    LET position == findSubstringPosition(originalText, correction.oldText.s,
                                          st.searchStartIndex)
    IN IF position.found
       THEN LET formattedCorrection == FormatCorrection(position, correction) IN
            IF isValidCorrection(formattedCorrection)
            THEN [formattedCorrections |->
                      Append(st.formattedCorrections, formattedCorrection),
                  searchStartIndex |-> AdvanceCursor(position)]
            ELSE st
       ELSE st

\* the loop state after the first k raw corrections
RECURSIVE ProcessLoop(_, _, _)
ProcessLoop(originalText, rawCorrections, k) ==
    IF k = 0
    THEN [formattedCorrections |-> <<>>, searchStartIndex |-> 0]
    ELSE ProcessOne(originalText,
                    ProcessLoop(originalText, rawCorrections, k - 1),
                    rawCorrections[k])

processCorrections(originalText, rawCorrections) ==
    ProcessLoop(originalText, rawCorrections,
                Len(rawCorrections)).formattedCorrections

----------------------------------------------------------------------------
(* fixGrammar and the LLM call. *)

\* error.message?.includes('connect') / includes('fetch failed')
MessageIncludesConnect(e) ==
    e.message \in {"connect ECONNREFUSED 127.0.0.1:11434",
                   "connect ETIMEDOUT 10.0.0.1:11434",
                   "Unable to connect to Ollama. Please ensure Ollama is running (ollama serve)"}
MessageIncludesFetchFailed(e) == e.message = "fetch failed"

\* variant: the error's cause is not looked at
IsConnectivityError_NoCause(e) ==
    \/ e.code = "ECONNREFUSED"
    \/ MessageIncludesConnect(e)
    \/ MessageIncludesFetchFailed(e)

\* the test of lines 94-97
IsConnectivityError(e) ==
    \/ e.code = "ECONNREFUSED"
    \/ e.causeCode = "ECONNREFUSED"
    \/ MessageIncludesConnect(e)
    \/ MessageIncludesFetchFailed(e)

\* variant: every failure is reported as a connectivity failure
analyzeTextWithOllama_WrapAll(outcome) ==
    LET r == IF outcome.threw THEN outcome
             ELSE parseOllamaResponse(outcome.value)
    IN IF r.threw THEN Throw(UnableToConnectError) ELSE r

\* analyzeTextWithOllama once ollama.generate has settled: outcome is the
\* completion of the awaited call (its value the response text)
analyzeTextWithOllama(outcome) ==
    LET r == IF outcome.threw THEN outcome
             ELSE parseOllamaResponse(outcome.value)
    IN IF r.threw
       THEN IF IsConnectivityError(r.error)
            THEN Throw(UnableToConnectError)
            ELSE r
       ELSE r

\* variant: only the type is tested, the empty string passes
IsInvalidText_TypeOnly(t) == TypeOf(t) # "string"

\* the test of line 25
IsInvalidText(t) == ~Truthy(t) \/ TypeOf(t) # "string"

\* fixGrammar's options: model and host, Undefined when not given
Options(model, host) == [model |-> model, host |-> host]
NoOptions == Options(Undefined, Undefined)
DefaultModel == Str(<<"gemma3">>)
DefaultHost == Str(<<"http://localhost:11434">>)

\* the config object of lines 29-32
Config(options) ==
    [model |-> IF Truthy(options.model) THEN options.model ELSE DefaultModel,
     host |-> IF Truthy(options.host) THEN options.host ELSE DefaultHost]

\* new Ollama({ host: config.host }) and generate({ model: config.model, .. })
\* of lines 57 and 81-89
NoRequest == [made |-> FALSE, host |-> Undefined, model |-> Undefined]
OllamaRequest(config) ==
    [made |-> TRUE, host |-> config.host, model |-> config.model]

----------------------------------------------------------------------------
(* applyCorrections. *)

\* variant: ascending order
Comparator_Ascending(a, b) == a.location.start - b.location.start

\* the comparator of line 62: negative when a sorts before b
Comparator(a, b) == b.location.start - a.location.start

\* variant: an unstable sort, an element goes before the ones it ties with
RECURSIVE InsertStable_TiesFirst(_, _)
InsertStable_TiesFirst(sorted, c) ==
    IF sorted = <<>> THEN <<c>>
    ELSE IF Comparator(c, Head(sorted)) <= 0 THEN <<c>> \o sorted
    ELSE <<Head(sorted)>> \o InsertStable_TiesFirst(Tail(sorted), c)

\* Array.prototype.sort is stable: an element goes before the first one it
\* compares less than, and after everything it ties with
RECURSIVE InsertStable(_, _)
InsertStable(sorted, c) ==
    IF sorted = <<>> THEN <<c>>
    ELSE IF Comparator(c, Head(sorted)) < 0 THEN <<c>> \o sorted
    ELSE <<Head(sorted)>> \o InsertStable(Tail(sorted), c)

RECURSIVE StableSort(_)
StableSort(seq) ==
    IF seq = <<>> THEN <<>>
    ELSE InsertStable(StableSort(SubSeq(seq, 1, Len(seq) - 1)), seq[Len(seq)])

\* variant: the batch is applied in the order given
SortedCorrections_Unsorted(corrs) == corrs

\* [...corrections].sort(...) of line 62
SortedCorrections(corrs) == StableSort(corrs)

\* variant: corrections.sort(...) sorts the caller's array in place
CallerArray_SortedInPlace(corrs) ==
    IF Len(corrs) = 0 THEN corrs ELSE SortedCorrections(corrs)

\* the caller's array once applyCorrections has returned: line 62 sorts
\* the copy [...corrections], and nothing else writes to an array or to a
\* correction
CallerArray(corrs) == corrs

\* the splice of lines 66-69
Splice(correctedTxt, correction) ==
    Substring(correctedTxt, 0, correction.location.start)
        \o correction.newText.s
        \o SubstringFrom(correctedTxt, correction.location.end)

\* the for loop of lines 65-70
RECURSIVE SpliceAll(_, _)
SpliceAll(correctedTxt, sortedCorrections) ==
    IF sortedCorrections = <<>> THEN correctedTxt
    ELSE SpliceAll(Splice(correctedTxt, Head(sortedCorrections)),
                   Tail(sortedCorrections))

\* variant: an empty batch gives the empty string
applyCorrections_EmptyGivesEmpty(txt, corrs) ==
    IF Len(corrs) = 0 THEN <<>>
    ELSE SpliceAll(txt, SortedCorrections(corrs))

applyCorrections(txt, corrs) ==
    IF Len(corrs) = 0 THEN txt
    ELSE SpliceAll(txt, SortedCorrections(corrs))

----------------------------------------------------------------------------
(* Inputs. *)

SeqsUpTo(S, n) == UNION {[1..k -> S] : k \in 0..n}

Chars == {"a", "b"}

\* arguments given to fixGrammar: strings (the empty one too), and values
\* that are not strings
TextArgs ==
    {Str(t) : t \in SeqsUpTo(Chars, MaxTextLen)} \cup {Undefined, Null, Num(5)}

\* entries the LLM may put in its array
ValidEntries ==
    {Obj(Str(<<"a">>), Str(<<"x">>), Undefined),
     Obj(Str(<<"a">>), Str(<<"y", "y">>), Str(<<"e">>)),
     Obj(Str(<<"b">>), Str(<<"x">>), Undefined),
     Obj(Str(<<"a", "a">>), Str(<<"z">>), Undefined),
     Obj(Str(<<"b">>), Str(<<"y">>), Num(5)),
     Obj(Str(<<"b">>), Str(<<"z">>), Str(<<>>))}
InvalidEntries ==
    {NullEntry,
     NumberEntry,
     Obj(Undefined, Undefined, Undefined),
     Obj(Str(<<>>), Str(<<"x">>), Undefined),
     Obj(Num(5), Str(<<"x">>), Undefined),
     Obj(Str(<<"a">>), Str(<<>>), Undefined),
     Obj(Str(<<"a">>), Undefined, Str(<<"e">>))}
EntryChoices == ValidEntries \cup InvalidEntries

\* JSON text of an array: '[' e1 ',' e2 ... ']'
RECURSIVE CommaSeparated(_)
CommaSeparated(entries) ==
    IF entries = <<>> THEN <<>>
    ELSE IF Len(entries) = 1 THEN <<Val(entries[1])>>
    ELSE <<Val(Head(entries)), Comma>> \o CommaSeparated(Tail(entries))
ArrayText(entries) == <<LB>> \o CommaSeparated(entries) \o <<RB>>

SomeEntry == Obj(Str(<<"a">>), Str(<<"x">>), Undefined)
OtherEntry == Obj(Str(<<"b">>), Str(<<"x">>), Undefined)

\* what the LLM may answer in place of a well-formed array
MalformedBodies ==
    {<<>>,
     <<Prose>>,
     <<Val(SomeEntry)>>,
     <<LB, Prose, RB>>,
     <<LB, Val(SomeEntry), Comma, RB>>,
     <<LB, Val(SomeEntry), Val(OtherEntry), RB>>,
     <<LB, Val(SomeEntry)>>,
     <<LB, LB, Val(SomeEntry), RB, Comma, Val(OtherEntry), RB>>}
Bodies ==
    {ArrayText(es) : es \in SeqsUpTo(EntryChoices, MaxSuggestions)}
        \cup MalformedBodies

\* prose the LLM may wrap around its answer
ProseBefore == {<<>>, <<Prose>>}
ProseAfter ==
    {<<>>, <<Prose>>, <<Prose, RB>>, <<LB, Prose>>, <<LB, Prose, RB>>}

RawResponses ==
    {pre \o body \o post :
        pre \in ProseBefore, body \in Bodies, post \in ProseAfter}

\* errors ollama.generate may reject with
LLMError(code, causeCode, message) ==
    [name |-> "Error", code |-> code, causeCode |-> causeCode,
     message |-> message]
LLMErrors ==
    {LLMError("ECONNREFUSED", "", "connect ECONNREFUSED 127.0.0.1:11434"),
     LLMError("ECONNREFUSED", "", "request failed"),
     LLMError("", "ECONNREFUSED", "fetch failed"),
     LLMError("", "ECONNREFUSED", "request failed"),
     LLMError("", "", "fetch failed"),
     LLMError("", "", "connect ETIMEDOUT 10.0.0.1:11434"),
     LLMError("", "", "model 'gemma3' not found")}

\* texts and batches given to applyCorrections
Letters == <<"a", "b", "c", "d", "e", "f", "g", "h">>
ApplyTexts == {SubSeq(Letters, 1, n) : n \in 0..MaxApplyLen}
NewTexts == {<<"X">>, <<"Y", "Z">>}
ApplyCorrectionsOn(txt) ==
    {[location |-> [start |-> s, end |-> e],
      oldText |-> Str(Substring(txt, s, e)),
      newText |-> Str(n),
      explanation |-> Undefined] :
        s \in 0..Len(txt), e \in 0..Len(txt), n \in NewTexts}
ApplyBatches(txt) == SeqsUpTo(ApplyCorrectionsOn(txt), MaxBatch)

\* arguments given to findSubstringPosition: upper and lower case differ;
\* startIndex is omitted or a number, also one below 0 or beyond the text
ResolveChars == {"a", "A", "b"}
ResolveTexts == SeqsUpTo(ResolveChars, MaxResolveLen)
ResolveSubstrings == SeqsUpTo(ResolveChars, MaxSubstringLen)
ResolveStartIndexes(txt) ==
    {Undefined} \cup {Num(k) : k \in -1..(Len(txt) + 1)}

----------------------------------------------------------------------------
(* The fixGrammar call as a state machine. *)

FixInit ==
    /\ pc = "idle"
    /\ text = Undefined
    /\ ollamaRequest = NoRequest
    /\ ollama = "pending"
    /\ responseText = <<>>
    /\ ollamaError = NoError
    /\ corrections = <<>>
    /\ formattedCorrections = <<>>
    /\ error = NoError

ApplyInit ==
    /\ applyPc = "idle"
    /\ applyText = <<>>
    /\ applyBatch = <<>>
    /\ correctedText = <<>>
    /\ callerCorrections = <<>>

ResolveInit ==
    /\ resolvePc = "idle"
    /\ resolveText = <<>>
    /\ resolveSubstring = <<>>
    /\ resolveStartIndex = Undefined
    /\ resolveResult = [found |-> FALSE, start |-> 0, end |-> 0]

\* texts, options and LLM outcomes of the calls that run at the same time
CallIds == 1..MaxCalls
ConcTexts == {Str(<<"a", "b">>), Str(<<"b", "a">>), Str(<<>>)}
ConcOptions ==
    {NoOptions, Options(Str(<<"llama3">>), Str(<<"http://ollama:11434">>))}
ConcOutcomes ==
    {Normal(ArrayText(<<SomeEntry>>)),
     Normal(ArrayText(<<SomeEntry, OtherEntry>>)),
     Normal(<<Prose>>),
     Throw(LLMError("ECONNREFUSED", "", "connect ECONNREFUSED 127.0.0.1:11434")),
     Throw(LLMError("", "", "model 'gemma3' not found"))}

\* the locals of one fixGrammar call: its parameters, the request it made,
\* how its own ollama.generate settled, and what it settled to
NoOutcome == [threw |-> FALSE, value |-> <<>>, error |-> NoError, settled |-> FALSE]
Settled(outcome) ==
    [threw |-> outcome.threw, value |-> outcome.value, error |-> outcome.error,
     settled |-> TRUE]
IdleFrame ==
    [pc |-> "idle", text |-> Undefined, options |-> NoOptions,
     request |-> NoRequest, outcome |-> NoOutcome, corrections |-> <<>>,
     formattedCorrections |-> <<>>, error |-> NoError]

\* fixGrammar(t, options) up to its await, on the call's own frame
fixGrammarEnter(t, options) ==
    IF IsInvalidText(t)
    THEN [IdleFrame EXCEPT !.pc = "rejected", !.text = t, !.options = options,
                           !.error = InvalidInputError]
    ELSE [IdleFrame EXCEPT !.pc = "awaiting", !.text = t, !.options = options,
                           !.request = OllamaRequest(Config(options))]

\* the rest of fixGrammar after its await: txt is the `text` the
\* continuation reads at line 39
fixGrammarResume(frame, txt, outcome) ==
    LET r == analyzeTextWithOllama(outcome) IN
    IF r.threw
    THEN [frame EXCEPT !.pc = "rejected", !.outcome = Settled(outcome),
                       !.error = r.error]
    ELSE [frame EXCEPT !.pc = "resolved", !.outcome = Settled(outcome),
                       !.corrections = r.value,
                       !.formattedCorrections = processCorrections(txt.s, r.value)]

\* variant: `text` is one module-level variable, written by every call, so
\* a continuation reads the text of the call that started last
TextOf_LastCall(cs, i) ==
    LET started == {j \in DOMAIN cs : cs[j].pc # "idle"}
        last == CHOOSE j \in started : \A k \in started : k <= j
    IN cs[last].text

\* `text` as the continuation of call i reads it: the parameter of that
\* call, kept in its closure
TextOf(cs, i) == cs[i].text

ConcInit == calls = [i \in CallIds |-> IdleFrame]

----------------------------------------------------------------------------
(* The HTTP server (src/src/server.js). *)

\* process.env: a variable that is not set reads as undefined
Env(host, model) == [OLLAMA_HOST |-> host, OLLAMA_MODEL |-> model]
NoEnv == Env(Undefined, Undefined)
Envs ==
    {Env(h, m) : h \in {Undefined, Str(<<"http://ollama:11434">>)},
                 m \in {Undefined, Str(<<"llama3">>)}}

\* `a || b`
OrElse(a, b) == IF Truthy(a) THEN a ELSE b

\* the two console.log lines of startServer that read the environment
\* (lines 242-243)
StartupLog(e) ==
    [host |-> OrElse(e.OLLAMA_HOST, DefaultHost),
     model |-> OrElse(e.OLLAMA_MODEL, DefaultModel)]
NoStartupLog == [host |-> Undefined, model |-> Undefined]

\* requests
Methods == {"GET", "POST", "DELETE"}
Urls ==
    {"/health", "/health/", "/grammar/fix", "/grammar/fix/", "/grammar/apply",
     "/grammar/apply/", "/", "/unknown"}
NoHttpRequest == [method |-> "", url |-> ""]

\* the url tests of requestHandler (lines 187, 195, 203, 211)
Route(url) ==
    IF url \in {"/health", "/health/"} THEN "health"
    ELSE IF url \in {"/grammar/fix", "/grammar/fix/"} THEN "fix"
    ELSE IF url \in {"/grammar/apply", "/grammar/apply/"} THEN "apply"
    ELSE IF url \in {"/", ""} THEN "root"
    ELSE "notFound"

\* the method each route serves
AllowedMethod(route) ==
    IF route \in {"fix", "apply"} THEN "POST" ELSE "GET"

\* a field of a JSON object that may be absent
Absent(v) == [given |-> FALSE, value |-> v]
Given(v) == [given |-> TRUE, value |-> v]

\* the corrections field of a JSON body: missing, an array of correction
\* objects, or another JSON value (the number 5, the array [7])
NoCorrections == [given |-> FALSE, json |-> "undefined", value |-> <<>>]
CorrectionsArray(corrs) == [given |-> TRUE, json |-> "array", value |-> corrs]
CorrectionsNumber == [given |-> TRUE, json |-> "number", value |-> <<>>]
CorrectionsArrayOfNumbers ==
    [given |-> TRUE, json |-> "arrayOfNumbers", value |-> <<>>]

\* JSON values a request body may hold: an object with the fields the
\* handlers read, or null
JsonObject(t, options, corrs) ==
    [kind |-> "object", text |-> t, options |-> options, corrections |-> corrs]
EmptyObject == JsonObject(Undefined, Absent(NoOptions), NoCorrections)
JsonNull ==
    [kind |-> "null", text |-> Undefined, options |-> Absent(NoOptions),
     corrections |-> NoCorrections]

\* the body text of a request: empty, not JSON, or the JSON of a value
RawBody(kind, value) == [kind |-> kind, value |-> value]
NoBody == RawBody("none", EmptyObject)
EmptyBody == RawBody("empty", EmptyObject)
InvalidJsonBody == RawBody("invalid", EmptyObject)
JsonBody(value) == RawBody("json", value)

\* bodies posted to /grammar/fix: text missing, null, empty, a number, or
\* a string; options missing, empty, or naming a host and a model
FixTexts ==
    {Undefined, Null, Str(<<>>), Num(0), Num(123), Str(<<"a", "b">>)}
FixOptions ==
    {Absent(NoOptions), Given(NoOptions),
     Given(Options(Str(<<"mistral">>), Str(<<"http://other:11434">>)))}
FixBodies ==
    {EmptyBody, InvalidJsonBody, JsonBody(JsonNull)}
        \cup {JsonBody(JsonObject(t, o, NoCorrections)) :
                  t \in FixTexts, o \in FixOptions}

\* bodies posted to /grammar/apply
ApplyBodyTexts == {Undefined, Str(<<>>), Num(123), Str(<<"a", "b", "c">>)}
ApplyBodyCorrections(t) ==
    {NoCorrections, CorrectionsNumber, CorrectionsArrayOfNumbers}
        \cup {CorrectionsArray(corrs) :
                  corrs \in SeqsUpTo(ApplyCorrectionsOn(t.s), 1)}
ApplyBodies ==
    {EmptyBody, InvalidJsonBody, JsonBody(JsonNull)}
        \cup {JsonBody(JsonObject(t, Absent(NoOptions), c)) :
                  t \in ApplyBodyTexts, c \in ApplyBodyCorrections(Str(<<"a", "b", "c">>))}

\* how the LLM call of a served request settles
ServerOutcomes == ConcOutcomes

InvalidJSONError ==
    [name |-> "Error", code |-> "", causeCode |-> "", message |-> "Invalid JSON"]
TypeErrorNullText ==
    [name |-> "TypeError", code |-> "", causeCode |-> "",
     message |-> "Cannot read properties of null (reading 'text')"]
TypeErrorOf(message) ==
    [name |-> "TypeError", code |-> "", causeCode |-> "", message |-> message]
RequestAborted ==
    [name |-> "Error", code |-> "ECONNRESET", causeCode |-> "",
     message |-> "aborted"]

\* parseBody once the request has ended (lines 27-37)
parseBody(raw) ==
    IF raw.kind = "empty" THEN Normal(EmptyObject)
    ELSE IF raw.kind = "invalid" THEN Throw(InvalidJSONError)
    ELSE Normal(raw.value)

\* applyCorrections (index.js lines 56-73) called with the text and the
\* corrections of a JSON body, whatever their types: a number has no
\* length and cannot be spread, a number in the array has no location,
\* and a text that is no string has no substring method
applyCorrectionsOfBody(t, c) ==
    IF c.json = "number"
    THEN Throw(TypeErrorOf("corrections is not iterable"))
    ELSE IF c.json = "arrayOfNumbers"
    THEN Throw(TypeErrorOf("Cannot read properties of undefined (reading 'start')"))
    ELSE IF Len(c.value) = 0 THEN Normal(t)
    ELSE IF t.t # "string"
    THEN Throw(TypeErrorOf("correctedText.substring is not a function"))
    ELSE Normal(Str(applyCorrections(t.s, c.value)))

\* headers are name-value pairs
JsonContentType == <<"Content-Type", "application/json">>
SecurityHeaders ==
    {<<"X-Content-Type-Options", "nosniff">>,
     <<"X-Frame-Options", "DENY">>,
     <<"X-XSS-Protection", "1; mode=block">>,
     <<"Strict-Transport-Security", "max-age=31536000; includeSubDomains">>}

\* sendJson (lines 49-58)
sendJson(statusCode, data) ==
    [status |-> statusCode,
     headers |-> {JsonContentType} \cup SecurityHeaders,
     data |-> data]

ErrorData(err, message) == [error |-> err, message |-> message]

\* handleHealthCheck (lines 64-81); the timestamp is left out
handleHealthCheck ==
    sendJson(200, [status |-> "healthy",
                   service |-> "grammar-fixer-ollama-gemma3",
                   version |-> "1.0.0"])

\* the root answer of requestHandler (lines 213-223)
RootInfo ==
    sendJson(200, [service |-> "grammar-fixer-ollama-gemma3",
                   version |-> "1.0.0",
                   documentation |-> "See openapi.yaml for full API specification"])

\* handleNotFound (lines 153-158)
handleNotFound ==
    sendJson(404, ErrorData("Not Found", "The requested endpoint does not exist"))

\* handleMethodNotAllowed (lines 165-174): writes its own head
handleMethodNotAllowed(allowedMethods) ==
    [status |-> 405,
     headers |-> {JsonContentType, <<"Allow", allowedMethods>>},
     data |-> ErrorData("Method Not Allowed",
                        <<"Allowed methods: ", allowedMethods>>)]

\* the catch blocks of the two POST handlers (lines 107-113, 140-146)
InternalServerError(e) ==
    sendJson(500, ErrorData("Internal Server Error", e.message))

ServerInit ==
    /\ env = NoEnv
    /\ startupLog = NoStartupLog
    /\ srvPc = "stopped"
    /\ request = NoHttpRequest
    /\ requestBody = NoBody
    /\ responses = <<>>
    /\ listening = FALSE

\* process.exit(code)
Running == [exited |-> FALSE, code |-> 0]
Exited(code) == [exited |-> TRUE, code |-> code]

\* the signals startServer installs `shutdown` for (lines 261-262)
ShutdownSignals == {"SIGTERM", "SIGINT"}

ShutdownInit ==
    /\ connections = 0
    /\ signals = <<>>
    /\ closeCallbacks = 0
    /\ timers = 0
    /\ exit = Running

----------------------------------------------------------------------------
(* The command line program (src/unnamed/part_002). *)

\* command line arguments are strings, written as their characters
HelpFlags == {<<"-", "-", "h", "e", "l", "p">>, <<"-", "h">>}
StdinFlags == {<<"-", "-", "s", "t", "d", "i", "n">>, <<"-">>}
FileFlags == {<<"-", "-", "f", "i", "l", "e">>, <<"-", "f">>}
SomePath == <<"i", "n", ".", "t", "x", "t">>
SomeWords == <<<<"S", "h", "e">>, <<"d", "o", "n", "t">>>>

\* process.argv.slice(2) as the program may be started
ArgLists ==
    {<<>>, <<<<>>>>, <<SomePath>>, SomeWords}
        \cup {<<flag>> : flag \in HelpFlags \cup StdinFlags \cup FileFlags}
        \cup {<<flag, SomePath>> : flag \in FileFlags}

\* Array.prototype.join
RECURSIVE Join(_, _)
Join(strings, separator) ==
    IF strings = <<>> THEN <<>>
    ELSE IF Len(strings) = 1 THEN strings[1]
    ELSE Head(strings) \o separator \o Join(Tail(strings), separator)

\* the lines readline gives before stdin is closed
StdinLines ==
    {<<>>, <<<<"S", "h", "e", " ", "d", "o", "n", "t">>>>, <<<<"S", "h", "e", " ", "d", "o", "n", "t">>, <<"H", "e", " ", "g", "o">>>>}

\* readFromStdin (lines 16-33)
readFromStdin(lines) == Join(lines, <<"\n">>)

\* what fs.readFile gives for the path: the content of the file, or an
\* error
FileError ==
    [name |-> "Error", code |-> "ENOENT", causeCode |-> "",
     message |-> "ENOENT: no such file or directory"]
FileReads == {Normal(<<>>), Normal(<<"S", "h", "e", " ", "d", "o", "n", "t">>), Throw(FileError)}

\* readFromFile (lines 40-48)
readFromFile(filePath, read) ==
    IF read.threw
    THEN Throw([name |-> "Error", code |-> "", causeCode |-> "",
                message |-> <<"Failed to read file", filePath, read.error.message>>])
    ELSE read

\* the example texts of main (lines 116-120)
exampleTexts ==
    <<Str(<<"S", "h", "e", " ", "d", "o", "n", "t", " ", "l", "i", "k", "e",
          " ", "a", "p", "p", "l", "e", "s">>),
      Str(<<"H", "e", " ", "g", "o", " ", "t", "o", " ", "s", "c", "h", "o",
          "o", "l", " ", "e", "v", "e", "r", "y", "d", "a", "y">>),
      Str(<<"T", "h", "e", "y", " ", "w", "a", "s", " ", "h", "a", "p", "p",
          "y", " ", "t", "o", " ", "s", "e", "e", " ", "m", "e">>)>>

\* texts given to processText by a caller other than main
DirectTexts == {Str(<<>>), Str(<<"S", "h", "e", " ", "d", "o", "n", "t">>)}

\* how the LLM call of a text passed to processText settles
DontEntry ==
    Obj(Str(<<"d", "o", "n", "t">>), Str(<<"d", "o", "e", "s", "n", "'", "t">>), Str(<<"c", "o", "n", "t", "r", "a", "c", "t", "i", "o", "n">>))
CliOutcomes ==
    {Normal(ArrayText(<<>>)),
     Normal(ArrayText(<<DontEntry>>)),
     Throw(LLMError("ECONNREFUSED", "", "connect ECONNREFUSED 127.0.0.1:11434")),
     Throw(LLMError("", "", "model 'gemma3' not found"))}

\* console.log and console.error; call is the processText call that
\* writes, 0 for main
Log(call, kind, value) ==
    [stream |-> "log", call |-> call, kind |-> kind, value |-> value]
ErrorLog(call, kind, value) ==
    [stream |-> "error", call |-> call, kind |-> kind, value |-> value]

\* a call of processText: its arguments and how its fixGrammar settled
ProcessTextCall(t, source) ==
    [text |-> t, source |-> source, settled |-> "pending", error |-> NoError]

\* error.message.includes('Unable to connect to Ollama') (line 184)
MessageIncludesUnableToConnect(e) == e.message = UnableToConnectError.message

\* the first line processText writes (line 156); the texts here are
\* shorter than the 100 characters it shows
OriginalTextLine(call, t) == <<Log(call, "original", t.s)>>

\* processText once fixGrammar has resolved (lines 160-181)
PrintCorrections(call, t, corrs) ==
    IF Len(corrs) = 0 THEN <<Log(call, "noErrors", <<>>)>>
    ELSE <<Log(call, "found", Len(corrs))>>
             \o [i \in 1..Len(corrs) |-> Log(call, "correction", corrs[i])]
             \o <<Log(call, "corrected", applyCorrections(t.s, corrs)),
                  Log(call, "json", corrs)>>

\* the catch of processText (lines 182-189)
PrintError(call, e) ==
    <<ErrorLog(call, "processing", e.message)>>
        \o IF MessageIncludesUnableToConnect(e)
           THEN <<ErrorLog(call, "ensure", <<>>)>>
           ELSE <<>>

\* variant: processText has no catch, the error of fixGrammar leaves it
processTextSettled_NoCatch(call, t, threw, e, corrs) ==
    IF threw THEN [threw |-> TRUE, error |-> e, lines |-> <<>>]
    ELSE [threw |-> FALSE, error |-> NoError,
          lines |-> PrintCorrections(call, t, corrs)]

\* processText from the settling of fixGrammar to its end: what it
\* writes, and whether an error leaves it
processTextSettled(call, t, threw, e, corrs) ==
    IF threw THEN [threw |-> FALSE, error |-> NoError, lines |-> PrintError(call, e)]
    ELSE [threw |-> FALSE, error |-> NoError,
          lines |-> PrintCorrections(call, t, corrs)]

CliInit ==
    /\ cliPc = "idle"
    /\ argv = <<>>
    /\ inputSource = "examples"
    /\ inputText = Null
    /\ pending = <<>>
    /\ processTextCalls = <<>>
    /\ console = <<>>
    /\ cliExit = Running

Init ==
    /\ FixInit /\ ApplyInit /\ ResolveInit /\ ConcInit /\ ServerInit
    /\ ShutdownInit /\ CliInit

\* fixGrammar(t, options) up to its await (lines 24-36, 56-89): the
\* argument check, then the request to the LLM is made
FixGrammarStart(t, options) ==
    /\ text' = t
    /\ IF IsInvalidText(t)
       THEN /\ pc' = "rejected"
            /\ error' = InvalidInputError
            /\ UNCHANGED ollamaRequest
       ELSE /\ pc' = "awaiting"
            /\ error' = NoError
            /\ ollamaRequest' = OllamaRequest(Config(options))
    /\ UNCHANGED <<ollama, responseText, ollamaError, corrections,
                   formattedCorrections>>

\* fixGrammar(text) as processText calls it (part_002 line 158): options
\* takes its default {}
CallFixGrammar ==
    /\ pc = "idle"
    /\ \E t \in TextArgs : FixGrammarStart(t, NoOptions)
    /\ UNCHANGED notFixVars

\* the rest of fixGrammar once ollama.generate has settled with outcome
\* (lines 36-45 with analyzeTextWithOllama's lines 81-101)
Settle(outcome) ==
    LET r == analyzeTextWithOllama(outcome) IN
    IF r.threw
    THEN /\ pc' = "rejected"
         /\ error' = r.error
         /\ UNCHANGED <<corrections, formattedCorrections>>
    ELSE /\ pc' = "resolved"
         /\ corrections' = r.value
         /\ formattedCorrections' = processCorrections(text.s, r.value)
         /\ UNCHANGED error

\* ollama.generate resolves with a response text
OllamaResolves ==
    /\ pc = "awaiting"
    /\ \E raw \in RawResponses :
        /\ responseText' = raw
        /\ Settle(Normal(raw))
    /\ ollama' = "resolved"
    /\ UNCHANGED <<text, ollamaRequest, ollamaError>>
    /\ UNCHANGED notFixVars

\* ollama.generate rejects
OllamaRejects ==
    /\ pc = "awaiting"
    /\ \E e \in LLMErrors :
        /\ ollamaError' = e
        /\ Settle(Throw(e))
    /\ ollama' = "rejected"
    /\ UNCHANGED <<text, ollamaRequest, responseText>>
    /\ UNCHANGED notFixVars

Next == CallFixGrammar \/ OllamaResolves \/ OllamaRejects

Spec == Init /\ [][Next]_vars

----------------------------------------------------------------------------
(* The applyCorrections call as a state machine. *)

\* applyCorrections(text, corrections), lines 56-73
ApplyCall ==
    /\ applyPc = "idle"
    /\ \E txt \in ApplyTexts :
        \E corrs \in ApplyBatches(txt) :
            /\ applyText' = txt
            /\ applyBatch' = corrs
            /\ correctedText' = applyCorrections(txt, corrs)
            /\ callerCorrections' = CallerArray(corrs)
    /\ applyPc' = "returned"
    /\ UNCHANGED notApplyVars

NextApply == ApplyCall

SpecApply == Init /\ [][NextApply]_vars

----------------------------------------------------------------------------
(* The findSubstringPosition call as a state machine. *)

\* findSubstringPosition(text, substring, startIndex), lines 195-205
ResolveCall ==
    /\ resolvePc = "idle"
    /\ \E txt \in ResolveTexts, sub \in ResolveSubstrings :
        \E from \in ResolveStartIndexes(txt) :
            /\ resolveText' = txt
            /\ resolveSubstring' = sub
            /\ resolveStartIndex' = from
            /\ resolveResult' =
                   findSubstringPosition(txt, sub, StartIndexOrDefault(from))
    /\ resolvePc' = "returned"
    /\ UNCHANGED notResolveVars

NextResolve == ResolveCall

SpecResolve == Init /\ [][NextResolve]_vars

----------------------------------------------------------------------------
(* fixGrammar calls in flight at the same time. *)

\* a caller invokes fixGrammar(t, options); the call runs to its await
ConcCall(i) ==
    /\ calls[i].pc = "idle"
    /\ \E t \in ConcTexts, options \in ConcOptions :
        calls' = [calls EXCEPT ![i] = fixGrammarEnter(t, options)]
    /\ UNCHANGED notCallsVars

\* the ollama.generate of call i settles and the call runs to its end
ConcSettle(i) ==
    /\ calls[i].pc = "awaiting"
    /\ \E outcome \in ConcOutcomes :
        calls' = [calls EXCEPT
                     ![i] = fixGrammarResume(calls[i], TextOf(calls, i), outcome)]
    /\ UNCHANGED notCallsVars

NextConcurrent == \E i \in CallIds : ConcCall(i) \/ ConcSettle(i)

SpecConcurrent == Init /\ [][NextConcurrent]_vars

----------------------------------------------------------------------------
(* The server handling a request. *)

\* variant: the response is written and ended twice
Respond_Twice(r) ==
    /\ responses' = Append(Append(responses, r), r)
    /\ srvPc' = "responded"

\* a handler writes a response and is done
Respond(r) ==
    /\ responses' = Append(responses, r)
    /\ srvPc' = "responded"

\* startServer (lines 235-244): the process starts with some environment,
\* listens, and logs the Ollama host and model
StartServer ==
    /\ srvPc = "stopped"
    /\ \E e \in Envs :
        /\ env' = e
        /\ startupLog' = StartupLog(e)
    /\ srvPc' = "listening"
    /\ listening' = TRUE
    /\ UNCHANGED <<request, requestBody, responses>>
    /\ UNCHANGED <<fixVars, notServerVars>>

\* requestHandler (lines 181-230): answers at once, or hands the request
\* to a POST handler, which awaits the body
RequestArrives ==
    /\ srvPc = "listening"
    /\ \E method \in Methods, url \in Urls :
        /\ request' = [method |-> method, url |-> url]
        /\ LET route == Route(url) IN
           IF route = "notFound" THEN Respond(handleNotFound)
           ELSE IF method # AllowedMethod(route)
           THEN Respond(handleMethodNotAllowed(AllowedMethod(route)))
           ELSE IF route = "health" THEN Respond(handleHealthCheck)
           ELSE IF route = "root" THEN Respond(RootInfo)
           ELSE /\ srvPc' = "parsing"
                /\ UNCHANGED responses
    /\ UNCHANGED <<env, startupLog, requestBody>>
    /\ UNCHANGED <<fixVars, listening, notServerVars>>

\* the request emits 'error' before its end: parseBody rejects (line 39)
\* and the handler's catch answers
RequestErrors ==
    /\ srvPc = "parsing"
    /\ Respond(InternalServerError(RequestAborted))
    /\ UNCHANGED <<env, startupLog, request, requestBody>>
    /\ UNCHANGED <<fixVars, listening, notServerVars>>

\* handleFixGrammar (lines 88-114) from the end of the body to its
\* response or to the await of the LLM inside fixGrammar
FixBodyEnds ==
    /\ srvPc = "parsing"
    /\ Route(request.url) = "fix"
    /\ \E raw \in FixBodies :
        /\ requestBody' = raw
        /\ LET parsed == parseBody(raw) IN
           IF parsed.threw
           THEN Respond(InternalServerError(parsed.error)) /\ UNCHANGED fixVars
           ELSE IF parsed.value.kind = "null"
           THEN Respond(InternalServerError(TypeErrorNullText))
                /\ UNCHANGED fixVars
           ELSE IF ~Truthy(parsed.value.text)
           THEN Respond(sendJson(400, ErrorData("Bad Request",
                                     "Missing required field: text")))
                /\ UNCHANGED fixVars
           ELSE /\ FixGrammarStart(parsed.value.text,
                                   IF parsed.value.options.given
                                   THEN parsed.value.options.value
                                   ELSE NoOptions)
                /\ IF pc' = "rejected"
                   THEN Respond(InternalServerError(error'))
                   ELSE srvPc' = "fixing" /\ UNCHANGED responses
    /\ UNCHANGED <<env, startupLog, request>>
    /\ UNCHANGED <<listening, notServerVars>>

\* the LLM call of the served request resolves: fixGrammar settles and
\* handleFixGrammar answers (lines 101-113)
ServerOllamaResolves ==
    /\ srvPc = "fixing"
    /\ pc = "awaiting"
    /\ \E outcome \in {o \in ServerOutcomes : ~o.threw} :
        /\ responseText' = outcome.value
        /\ Settle(outcome)
    /\ ollama' = "resolved"
    /\ IF pc' = "rejected"
       THEN Respond(InternalServerError(error'))
       ELSE Respond(sendJson(200, [corrections |-> formattedCorrections',
                                   count |-> Len(formattedCorrections')]))
    /\ UNCHANGED <<text, ollamaRequest, ollamaError>>
    /\ UNCHANGED <<env, startupLog, request, requestBody>>
    /\ UNCHANGED <<listening, notServerVars>>

\* the LLM call of the served request rejects
ServerOllamaRejects ==
    /\ srvPc = "fixing"
    /\ pc = "awaiting"
    /\ \E outcome \in {o \in ServerOutcomes : o.threw} :
        /\ ollamaError' = outcome.error
        /\ Settle(outcome)
    /\ ollama' = "rejected"
    /\ Respond(InternalServerError(error'))
    /\ UNCHANGED <<text, ollamaRequest, responseText>>
    /\ UNCHANGED <<env, startupLog, request, requestBody>>
    /\ UNCHANGED <<listening, notServerVars>>

\* handleApplyCorrections (lines 121-147) from the end of the body
ApplyBodyEnds ==
    /\ srvPc = "parsing"
    /\ Route(request.url) = "apply"
    /\ \E raw \in ApplyBodies :
        /\ requestBody' = raw
        /\ LET parsed == parseBody(raw) IN
           IF parsed.threw
           THEN Respond(InternalServerError(parsed.error))
           ELSE IF parsed.value.kind = "null"
           THEN Respond(InternalServerError(TypeErrorNullText))
           ELSE IF ~Truthy(parsed.value.text) \/ ~parsed.value.corrections.given
           THEN Respond(sendJson(400, ErrorData("Bad Request",
                            "Missing required fields: text and corrections")))
           ELSE LET applied == applyCorrectionsOfBody(parsed.value.text,
                                                      parsed.value.corrections)
                IN IF applied.threw
                   THEN Respond(InternalServerError(applied.error))
                   ELSE Respond(sendJson(200,
                            [originalText |-> parsed.value.text,
                             correctedText |-> applied.value,
                             corrections |-> parsed.value.corrections.value]))
    /\ UNCHANGED <<env, startupLog, request>>
    /\ UNCHANGED <<fixVars, listening, notServerVars>>

NextServer ==
    \/ StartServer
    \/ RequestArrives
    \/ RequestErrors
    \/ FixBodyEnds
    \/ ApplyBodyEnds
    \/ ServerOllamaResolves
    \/ ServerOllamaRejects

SpecServer == Init /\ [][NextServer]_vars

\* the LLM call a handler awaits settles, one way or the other: the
\* promise of fixGrammar resolves or rejects (server.js line 101)
SpecServerFair ==
    SpecServer /\ WF_vars(ServerOllamaResolves \/ ServerOllamaRejects)

----------------------------------------------------------------------------
(* Graceful shutdown of the server process (server.js lines 246-262). *)

\* variant: shutdown sets no timer
TimersAfterShutdown_NoTimer(n) == n

\* the timers set once shutdown has run: setTimeout of lines 255-258
TimersAfterShutdown(n) == n + 1

\* a client connects to the listening server
ConnectionOpens ==
    /\ listening
    /\ ~exit.exited
    /\ connections < MaxConnections
    /\ connections' = connections + 1
    /\ UNCHANGED <<listening, signals, closeCallbacks, timers, exit>>
    /\ UNCHANGED <<fixVars, applyVars, resolveVars, calls, serverVars, cliVars>>

\* a connection ends
ConnectionCloses ==
    /\ ~exit.exited
    /\ connections > 0
    /\ connections' = connections - 1
    /\ UNCHANGED <<listening, signals, closeCallbacks, timers, exit>>
    /\ UNCHANGED <<fixVars, applyVars, resolveVars, calls, serverVars, cliVars>>

\* the process receives SIGTERM or SIGINT and runs shutdown (lines
\* 247-259): server.close stops the listening and registers its callback,
\* then the timer is set
Signal ==
    /\ srvPc # "stopped"
    /\ ~exit.exited
    /\ Len(signals) < MaxSignals
    /\ \E sig \in ShutdownSignals : signals' = Append(signals, sig)
    /\ listening' = FALSE
    /\ closeCallbacks' = closeCallbacks + 1
    /\ timers' = TimersAfterShutdown(timers)
    /\ UNCHANGED <<connections, exit>>
    /\ UNCHANGED <<fixVars, applyVars, resolveVars, calls, serverVars, cliVars>>

\* the server emits 'close': it listens no more and its last connection
\* has ended; the callback of line 249 calls process.exit(0)
ServerClosed ==
    /\ ~exit.exited
    /\ ~listening
    /\ connections = 0
    /\ closeCallbacks > 0
    /\ exit' = Exited(0)
    /\ UNCHANGED <<listening, connections, signals, closeCallbacks, timers>>
    /\ UNCHANGED <<fixVars, applyVars, resolveVars, calls, serverVars, cliVars>>

\* a timer set by shutdown fires: process.exit(1) (lines 255-258)
TimerFires ==
    /\ ~exit.exited
    /\ timers > 0
    /\ exit' = Exited(1)
    /\ UNCHANGED <<listening, connections, signals, closeCallbacks, timers>>
    /\ UNCHANGED <<fixVars, applyVars, resolveVars, calls, serverVars, cliVars>>

NextShutdown ==
    \/ StartServer
    \/ ConnectionOpens
    \/ ConnectionCloses
    \/ Signal
    \/ ServerClosed
    \/ TimerFires

\* a timer that is set fires when its time has passed, and 'close' is
\* emitted once nothing keeps the server open
SpecShutdown ==
    Init /\ [][NextShutdown]_vars /\ WF_vars(TimerFires) /\ WF_vars(ServerClosed)

----------------------------------------------------------------------------
(* The command line program as a state machine. *)

\* processText(t, source) up to its await of fixGrammar (lines 154-158);
\* before is what the console holds when it is called.  main only passes
\* non-empty strings, so fixGrammar reaches its await
StartProcessText(t, source, before) ==
    /\ processTextCalls' = Append(processTextCalls, ProcessTextCall(t, source))
    /\ console' = before \o OriginalTextLine(Len(processTextCalls) + 1, t)
    /\ FixGrammarStart(t, NoOptions)
    /\ cliPc' = "awaitingFix"

\* main from its test of inputText (lines 114-133) to the await of the
\* first processText
MainDispatch(txt, source, before) ==
    /\ inputText' = txt
    /\ inputSource' = source
    /\ IF ~Truthy(txt)
       THEN /\ pending' = Tail(exampleTexts)
            /\ StartProcessText(exampleTexts[1], "example",
                                before \o <<Log(0, "noInput", <<>>)>>)
       ELSE /\ pending' = <<>>
            /\ StartProcessText(txt, source, before)

\* main ends by process.exit(1) after writing an error
MainExits(lines) ==
    /\ console' = lines
    /\ cliExit' = Exited(1)
    /\ cliPc' = "exited"
    /\ UNCHANGED <<inputSource, inputText, pending, processTextCalls>>
    /\ UNCHANGED fixVars

\* main (lines 78-112) from its start to its first await or to its end
MainStarts ==
    /\ cliPc = "idle"
    /\ \E args \in ArgLists :
        /\ argv' = args
        /\ LET banner == <<Log(0, "banner", <<>>)>> IN
           IF args = <<>>
           THEN MainDispatch(Null, "examples", banner) /\ UNCHANGED cliExit
           ELSE IF args[1] \in HelpFlags
           THEN /\ console' = banner \o <<Log(0, "help", <<>>)>>
                /\ cliPc' = "done"
                /\ UNCHANGED <<inputSource, inputText, pending,
                               processTextCalls, cliExit>>
                /\ UNCHANGED fixVars
           ELSE IF args[1] \in StdinFlags
           THEN /\ console' = banner \o <<Log(0, "readingStdin", <<>>)>>
                /\ cliPc' = "readingStdin"
                /\ UNCHANGED <<inputSource, inputText, pending,
                               processTextCalls, cliExit>>
                /\ UNCHANGED fixVars
           ELSE IF args[1] \in FileFlags
           THEN IF Len(args) < 2
                THEN MainExits(banner \o <<ErrorLog(0, "fileRequiresPath", <<>>)>>)
                ELSE /\ console' = banner \o <<Log(0, "readingFile", args[2])>>
                     /\ cliPc' = "readingFile"
                     /\ UNCHANGED <<inputSource, inputText, pending,
                                    processTextCalls, cliExit>>
                     /\ UNCHANGED fixVars
           ELSE MainDispatch(Str(Join(args, <<" ">>)), "argument", banner)
                /\ UNCHANGED cliExit
    /\ UNCHANGED notCliVars

\* stdin is closed: readFromStdin resolves and main goes on (lines 94-96)
StdinCloses ==
    /\ cliPc = "readingStdin"
    /\ \E lines \in StdinLines :
        MainDispatch(Str(readFromStdin(lines)), "stdin", console)
    /\ UNCHANGED <<argv, cliExit>>
    /\ UNCHANGED notCliVars

\* fs.readFile settles: readFromFile resolves and main goes on (lines
\* 102-105), or it rejects and main's catch exits (lines 140-143)
FileIsRead ==
    /\ cliPc = "readingFile"
    /\ \E read \in FileReads :
        LET r == readFromFile(argv[2], read) IN
        IF r.threw
        THEN MainExits(Append(console, ErrorLog(0, "main", r.error.message)))
        ELSE MainDispatch(Str(r.value), "file", console) /\ UNCHANGED cliExit
    /\ UNCHANGED argv
    /\ UNCHANGED notCliVars

\* the call of processText records how its fixGrammar settled
SettledCall(call, threw, e) ==
    [call EXCEPT !.settled = IF threw THEN "rejected" ELSE "resolved",
                 !.error = e]

\* processText runs from the settling of its fixGrammar to its end
ProcessTextEnds ==
    LET k == Len(processTextCalls)
        done == processTextSettled(k, processTextCalls[k].text, pc' = "rejected",
                                   error', formattedCorrections')
    IN /\ processTextCalls' =
              [processTextCalls EXCEPT
                  ![k] = SettledCall(@, pc' = "rejected", error')]
       /\ console' = console \o done.lines
       /\ cliPc' = IF done.threw THEN "processTextRejected"
                   ELSE "processTextResolved"

\* processText is called by another module (it is exported, line 228)
ProcessTextCalled ==
    /\ cliPc = "idle"
    /\ \E t \in DirectTexts :
        /\ FixGrammarStart(t, NoOptions)
        /\ IF pc' = "rejected"
           THEN LET done == processTextSettled(1, t, TRUE, error', <<>>) IN
                /\ processTextCalls' =
                       <<SettledCall(ProcessTextCall(t, "test"), TRUE, error')>>
                /\ console' = OriginalTextLine(1, t) \o done.lines
                /\ cliPc' = IF done.threw THEN "processTextRejected"
                            ELSE "processTextResolved"
           ELSE /\ processTextCalls' = <<ProcessTextCall(t, "test")>>
                /\ console' = OriginalTextLine(1, t)
                /\ cliPc' = "awaitingFix"
    /\ UNCHANGED <<argv, inputSource, inputText, pending, cliExit>>
    /\ UNCHANGED notCliVars

\* the LLM call of the text being processed resolves
CliOllamaResolves ==
    /\ cliPc = "awaitingFix"
    /\ pc = "awaiting"
    /\ \E outcome \in {o \in CliOutcomes : ~o.threw} :
        /\ responseText' = outcome.value
        /\ Settle(outcome)
    /\ ollama' = "resolved"
    /\ ProcessTextEnds
    /\ UNCHANGED <<text, ollamaRequest, ollamaError>>
    /\ UNCHANGED <<argv, inputSource, inputText, pending, cliExit>>
    /\ UNCHANGED notCliVars

\* the LLM call of the text being processed rejects
CliOllamaRejects ==
    /\ cliPc = "awaitingFix"
    /\ pc = "awaiting"
    /\ \E outcome \in {o \in CliOutcomes : o.threw} :
        /\ ollamaError' = outcome.error
        /\ Settle(outcome)
    /\ ollama' = "rejected"
    /\ ProcessTextEnds
    /\ UNCHANGED <<text, ollamaRequest, responseText>>
    /\ UNCHANGED <<argv, inputSource, inputText, pending, cliExit>>
    /\ UNCHANGED notCliVars

\* main goes on after `await processText(...)` (lines 131-143): the next
\* example, or the closing note, or its catch
MainResumes ==
    /\ cliPc \in {"processTextResolved", "processTextRejected"}
    /\ processTextCalls[1].source # "test"
    /\ IF cliPc = "processTextRejected"
       THEN MainExits(Append(console,
                ErrorLog(0, "main",
                         processTextCalls[Len(processTextCalls)].error.message)))
       ELSE IF pending = <<>>
       THEN /\ console' = Append(console, Log(0, "note", <<>>))
            /\ cliPc' = "done"
            /\ UNCHANGED <<pending, processTextCalls, cliExit>>
            /\ UNCHANGED fixVars
       ELSE /\ StartProcessText(Head(pending), "example", console)
            /\ pending' = Tail(pending)
            /\ UNCHANGED cliExit
    /\ UNCHANGED <<argv, inputSource, inputText>>
    /\ UNCHANGED notCliVars

NextCli ==
    \/ MainStarts
    \/ StdinCloses
    \/ FileIsRead
    \/ ProcessTextCalled
    \/ CliOllamaResolves
    \/ CliOllamaRejects
    \/ MainResumes

SpecCli == Init /\ [][NextCli]_vars

----------------------------------------------------------------------------
(* Properties. *)

Batch == formattedCorrections
Original == text.s

\* sub occurs in txt at (0-based) index p
OccursAt(txt, sub, p) ==
    /\ p >= 0
    /\ p + Len(sub) <= Len(txt)
    /\ \A i \in 1..Len(sub) : txt[p + i] = sub[i]

C2_SpansOrderedDisjoint ==
    pc = "resolved" =>
        \A i \in 1..Len(Batch) : \A j \in 1..Len(Batch) :
            i < j =>
                /\ Batch[i].location.end <= Batch[j].location.start
                /\ Batch[i].location # Batch[j].location

\* C2 witness: the text holds overlapping occurrences ("aa" in "aaa") and the
\* batch has two corrections, the second starting where the first ends
C2_Witness ==
    /\ pc = "resolved"
    /\ Len(Batch) = 2
    /\ Batch[1].oldText.s = <<"a", "a">>
    /\ Batch[2].location.start = Batch[1].location.end
    /\ OccursAt(Original, <<"a", "a">>, 1)

\* a batch whose spans are valid against txt and pairwise non-overlapping
ValidSpan(txt, c) ==
    /\ 0 <= c.location.start
    /\ c.location.start < c.location.end
    /\ c.location.end <= Len(txt)
NonOverlapping(corrs) ==
    \A i \in 1..Len(corrs) : \A j \in 1..Len(corrs) :
        i # j =>
            \/ corrs[i].location.end <= corrs[j].location.start
            \/ corrs[j].location.end <= corrs[i].location.start
ValidBatch(txt, corrs) ==
    /\ \A i \in 1..Len(corrs) : ValidSpan(txt, corrs[i])
    /\ NonOverlapping(corrs)

\* the text with every span replaced at once: walking the ORIGINAL text from
\* index i, a character inside no span is kept, a span's start emits the
\* span's newText and skips to the span's end
RECURSIVE ReplaceFrom(_, _, _)
ReplaceFrom(txt, corrs, i) ==
    IF i >= Len(txt) THEN <<>>
    ELSE IF \E k \in 1..Len(corrs) : corrs[k].location.start = i
    THEN LET k == CHOOSE k \in 1..Len(corrs) : corrs[k].location.start = i
         IN corrs[k].newText.s \o ReplaceFrom(txt, corrs, corrs[k].location.end)
    ELSE <<txt[i + 1]>> \o ReplaceFrom(txt, corrs, i + 1)
SimultaneousReplace(txt, corrs) == ReplaceFrom(txt, corrs, 0)

\* C3: for a batch of valid, pairwise non-overlapping spans applyCorrections
\* returns the original text with every span replaced by its newText at
\* once: characters outside the spans are kept in order, and a replacement
\* that changes the length does not shift another one.
C3_ApplyIsSimultaneousReplace ==
    (applyPc = "returned" /\ ValidBatch(applyText, applyBatch)) =>
        correctedText = SimultaneousReplace(applyText, applyBatch)

\* C3 witness: two valid disjoint spans given lowest start first, the lower
\* one changing the length, with kept characters around them
C3_Witness ==
    /\ applyPc = "returned"
    /\ ValidBatch(applyText, applyBatch)
    /\ Len(applyBatch) = 2
    /\ applyBatch[1].location.start < applyBatch[2].location.start
    /\ Len(applyBatch[1].newText.s) #
           applyBatch[1].location.end - applyBatch[1].location.start
    /\ Len(applyText) >
           (applyBatch[1].location.end - applyBatch[1].location.start)
           + (applyBatch[2].location.end - applyBatch[2].location.start)

\* corrs reordered by the permutation f of its indices
Permuted(corrs, f) == [i \in 1..Len(corrs) |-> corrs[f[i]]]

\* C4: for a batch of valid, pairwise non-overlapping spans, every
\* permutation of the batch applies to the same string.
C4_ApplyOrderIndependent ==
    (applyPc = "returned" /\ ValidBatch(applyText, applyBatch)) =>
        \A f \in Permutations(1..Len(applyBatch)) :
            applyCorrections(applyText, Permuted(applyBatch, f)) = correctedText

\* C4 witness: two valid disjoint spans given highest start first, both
\* changing the length, so that the other order splices differently placed
\* text
C4_Witness ==
    /\ applyPc = "returned"
    /\ ValidBatch(applyText, applyBatch)
    /\ Len(applyBatch) = 2
    /\ applyBatch[1].location.start > applyBatch[2].location.start
    /\ \A i \in 1..2 :
           Len(applyBatch[i].newText.s) #
               applyBatch[i].location.end - applyBatch[i].location.start

\* what the LLM's array holds, when the text matched by the regular
\* expression is a JSON array
Emitted == JSONParse(RegexMatch(responseText).region)
EmittedArray == ollama = "resolved" /\ Emitted.ok /\ Emitted.isArray

\* an entry with oldText and newText both non-empty strings
IsValidSuggestion(e) ==
    /\ e.kind = "object"
    /\ e.oldText.t = "string" /\ e.oldText.s # <<>>
    /\ e.newText.t = "string" /\ e.newText.s # <<>>

\* C5: an invalid entry of the LLM's array (oldText or newText missing,
\* empty or not a string, or the entry not an object, null for one) is
\* skipped alone: no error is raised and the batch is the one reconciled
\* from the valid entries of the array.
C5_InvalidEntrySkippedAlone ==
    EmittedArray =>
        /\ pc = "resolved"
        /\ formattedCorrections =
               processCorrections(Original,
                                  SelectSeq(Emitted.elems, IsValidSuggestion))

\* sub occurs somewhere in txt
OccursIn(txt, sub) == \E p \in 0..Len(txt) : OccursAt(txt, sub, p)
PresentInOriginal(c) == OccursIn(Original, c.oldText.s)

\* C6: a suggestion whose oldText is nowhere in the original text is left
\* out of the batch, no error is raised, and the other suggestions are
\* processed as if it had not been there; a single such suggestion gives an
\* empty batch.
C6_NotFoundOmitted ==
    ollama = "resolved" =>
        /\ pc = "resolved"
        /\ error = NoError
        /\ \A i \in 1..Len(Batch) : PresentInOriginal(Batch[i])
        /\ Batch = processCorrections(Original,
                                      SelectSeq(corrections, PresentInOriginal))
        /\ (Len(corrections) = 1 /\ ~PresentInOriginal(corrections[1]))
               => Batch = <<>>

\* C6 witness: a suggestion absent from the text followed by one that is
\* found and kept
C6_Witness ==
    /\ pc = "resolved"
    /\ Len(corrections) = 2
    /\ ~PresentInOriginal(corrections[1])
    /\ Len(Batch) = 1
    /\ Batch[1].oldText = corrections[2].oldText

\* the first bracketed region of toks: from the first '[' to the ']' that
\* closes it; empty when there is no '[' or it is never closed
RECURSIVE ClosingIndex(_, _, _)
ClosingIndex(toks, i, depth) ==
    IF i > Len(toks) THEN 0
    ELSE IF toks[i].tok = "[" THEN ClosingIndex(toks, i + 1, depth + 1)
    ELSE IF toks[i].tok = "]"
    THEN IF depth = 1 THEN i ELSE ClosingIndex(toks, i + 1, depth - 1)
    ELSE ClosingIndex(toks, i + 1, depth)
FirstBracketedRegion(toks) ==
    LET i == FirstIndexOfTok(toks, "[", 1)
        j == IF i = 0 THEN 0 ELSE ClosingIndex(toks, i + 1, 1)
    IN IF j = 0 THEN <<>> ELSE SubSeq(toks, i, j)

\* C7: the suggestions extracted from the raw text are those of its FIRST
\* bracketed region alone: prose before the array and prose after its
\* closing bracket, brackets in that prose included, change nothing.
C7_FirstRegionOnly ==
    pc = "resolved" =>
        corrections =
            parseOllamaResponse(FirstBracketedRegion(responseText)).value

\* the raw response has no bracketed region, or the region is not JSON, or
\* it is not an array
NotAnArray ==
    \/ ~RegexMatch(responseText).matched
    \/ ~Emitted.ok
    \/ ~Emitted.isArray

\* C8: when the raw response has no bracketed region, is not parseable JSON
\* or is not an array, fixGrammar resolves to an empty batch and raises no
\* error.
C8_MalformedResponseEmptyBatch ==
    (ollama = "resolved" /\ NotAnArray) =>
        /\ pc = "resolved"
        /\ Batch = <<>>
        /\ error = NoError

\* C8 witness: a bracketed region that is not JSON
C8_Witness ==
    /\ pc = "resolved"
    /\ RegexMatch(responseText).matched
    /\ ~Emitted.ok
    /\ Batch = <<>>

\* least index >= from at which sub occurs in txt, -1 when there is none
LeastOccurrence(txt, sub, from) ==
    IF \E p \in from..Len(txt) : OccursAt(txt, sub, p)
    THEN CHOOSE p \in from..Len(txt) :
             /\ OccursAt(txt, sub, p)
             /\ \A q \in from..(p - 1) : ~OccursAt(txt, sub, q)
    ELSE -1

Prefix(seq, k) == SubSeq(seq, 1, k)
EndOfLast(batch) == IF batch = <<>> THEN 0 ELSE batch[Len(batch)].location.end

Pairs(seq) == [i \in 1..Len(seq) |-> <<seq[i].oldText, seq[i].newText>>]

\* the elements of seq at the indices of S, in order
RECURSIVE Restrict(_, _, _)
Restrict(seq, S, i) ==
    IF i > Len(seq) THEN <<>>
    ELSE IF i \in S THEN <<seq[i]>> \o Restrict(seq, S, i + 1)
    ELSE Restrict(seq, S, i + 1)
IsSubsequence(sub, seq) ==
    \E S \in SUBSET (1..Len(seq)) : Restrict(seq, S, 1) = sub

\* C10: the batch is an order-preserving subsequence of the suggestions the
\* reconciler received: every correction carries the oldText and newText of
\* a suggestion of its own, in the suggestions' order, and the batch is not
\* longer than the suggestion list.
C10_BatchIsSubsequence ==
    pc = "resolved" =>
        /\ Len(Batch) <= Len(corrections)
        /\ IsSubsequence(Pairs(Batch), Pairs(corrections))

\* C10 witness: two suggestions with different newText, the first dropped
\* and the second kept
C10_Witness ==
    /\ pc = "resolved"
    /\ Len(corrections) = 2
    /\ corrections[1].newText # corrections[2].newText
    /\ Len(Batch) = 1
    /\ Batch[1].newText = corrections[2].newText
    /\ Batch[1].oldText # corrections[1].oldText

\* a text argument that is empty or not a string
InvalidTextArg(t) == t.t # "string" \/ t.s = <<>>

\* C11: called with a text that is empty, null, undefined or not a string,
\* fixGrammar rejects with 'Invalid input: text must be a non-empty string'
\* and no LLM client is constructed or called.
C11_InvalidInputRejectedBeforeLLM ==
    (pc # "idle" /\ InvalidTextArg(text)) =>
        /\ pc = "rejected"
        /\ error.message = "Invalid input: text must be a non-empty string"
        /\ ollamaRequest = NoRequest
        /\ ollama = "pending"

\* C11 witness: the empty string was given
C11_Witness ==
    /\ pc = "rejected"
    /\ text = Str(<<>>)
    /\ ollamaRequest = NoRequest

\* the error is a failure to reach the LLM server
ConnectivityFailure(e) ==
    \/ e.code = "ECONNREFUSED"
    \/ e.causeCode = "ECONNREFUSED"
    \/ e.message \in {"connect ECONNREFUSED 127.0.0.1:11434",
                      "connect ETIMEDOUT 10.0.0.1:11434",
                      "fetch failed"}

\* C12 as stated: every rejection of fixGrammar is InvalidInput or
\* UpstreamUnavailable ('Unable to connect to Ollama'); any other anomaly,
\* a failure of the LLM call that is not a connectivity failure included,
\* gives a batch and no error.
C12_OnlyTwoRejectionKinds ==
    /\ pc = "rejected" => error \in {InvalidInputError, UnableToConnectError}
    /\ (ollama = "rejected" /\ ~ConnectivityFailure(ollamaError))
           => pc = "resolved"

\* C12 amended: a rejection of fixGrammar is InvalidInput,
\* UpstreamUnavailable, or the error of a failed LLM call that is not a
\* connectivity failure, rethrown as it is; anomalies of the LLM's response
\* text give a batch and no error.
C12_RejectionKindsWithRethrow ==
    /\ pc = "rejected" =>
        \/ error = InvalidInputError /\ InvalidTextArg(text)
        \/ /\ error = UnableToConnectError
           /\ ollama = "rejected" /\ ConnectivityFailure(ollamaError)
        \/ /\ error = ollamaError
           /\ ollama = "rejected" /\ ~ConnectivityFailure(ollamaError)
    /\ ollama = "resolved" => (pc = "resolved" /\ error = NoError)
    /\ (ollama = "rejected" /\ ~ConnectivityFailure(ollamaError))
           => (pc = "rejected" /\ error = ollamaError)

\* C12 witness: the LLM call failed, not for connectivity, and fixGrammar
\* rejected with that error
C12_Witness ==
    /\ pc = "rejected"
    /\ ollama = "rejected"
    /\ error.message = "model 'gemma3' not found"

\* C13: when the LLM call fails because the server cannot be reached
\* (ECONNREFUSED on the error or its cause, or a message with 'connect' or
\* 'fetch failed'), fixGrammar rejects with 'Unable to connect to Ollama.
\* Please ensure Ollama is running (ollama serve)', which differs from the
\* InvalidInput error and from resolving to an empty batch.
C13_ConnectivityFailureLabelled ==
    (ollama = "rejected" /\ ConnectivityFailure(ollamaError)) =>
        /\ pc = "rejected"
        /\ error.message =
               "Unable to connect to Ollama. Please ensure Ollama is running (ollama serve)"
        /\ error # InvalidInputError

\* C13 witness: ECONNREFUSED on the error's cause only
C13_Witness ==
    /\ pc = "rejected"
    /\ ollamaError.causeCode = "ECONNREFUSED"
    /\ ollamaError.code = ""
    /\ ollamaError.message = "request failed"
    /\ error = UnableToConnectError

\* the fromIndex of a findSubstringPosition call: 0 when omitted
FromIndex == IF resolveStartIndex = Undefined THEN 0 ELSE resolveStartIndex.n

\* C18: findSubstringPosition(text, substring, fromIndex), fromIndex not
\* beyond the text, searches exactly and case-sensitively: it returns
\* {start, end} with start the smallest index >= fromIndex where substring
\* occurs verbatim and end = start + length(substring), and null (no
\* exception) when there is no such index.
C18_ResolveFirstExactMatch ==
    (resolvePc = "returned" /\ FromIndex <= Len(resolveText)) =>
        LET least == LeastOccurrence(resolveText, resolveSubstring, FromIndex)
        IN IF least = -1
           THEN ~resolveResult.found
           ELSE /\ resolveResult.found
                /\ resolveResult.start = least
                /\ resolveResult.start >= FromIndex
                /\ resolveResult.end = least + Len(resolveSubstring)

\* C18 witness: the substring occurs before fromIndex too, and in the other
\* case, and the match returned is a later one
C18_Witness ==
    /\ resolvePc = "returned"
    /\ resolveText = <<"a", "A", "a">>
    /\ resolveSubstring = <<"a">>
    /\ FromIndex = 1
    /\ resolveResult = [found |-> TRUE, start |-> 2, end |-> 3]

\* C19: for every text and every fromIndex in [0, length(text)], the empty
\* substring resolves to the zero-width span {fromIndex, fromIndex}, never
\* to NotFound.
C19_EmptySubstringZeroWidth ==
    (/\ resolvePc = "returned"
     /\ resolveSubstring = <<>>
     /\ FromIndex >= 0
     /\ FromIndex <= Len(resolveText)) =>
        resolveResult = [found |-> TRUE, start |-> FromIndex, end |-> FromIndex]

\* C19 witness: the empty substring at the very end of a text
C19_Witness ==
    /\ resolvePc = "returned"
    /\ resolveSubstring = <<>>
    /\ Len(resolveText) > 0
    /\ resolveStartIndex = Num(Len(resolveText))
    /\ resolveResult.found
    /\ resolveResult.start = Len(resolveText)

\* C20: applyCorrections(text, []) returns text unchanged, for every text.
C20_ApplyEmptyIsIdentity ==
    (applyPc = "returned" /\ applyBatch = <<>>) => correctedText = applyText

\* C20 witness: an empty batch applied to a text that is not empty
C20_Witness ==
    /\ applyPc = "returned"
    /\ applyBatch = <<>>
    /\ Len(applyText) = MaxApplyLen
    /\ correctedText = applyText

----------------------------------------------------------------------------
(* Concurrent calls. *)

\* what a call gives when it is the only one: entered with its own text
\* and options, resumed with its own text and its own LLM outcome
RunAlone(t, options, outcome) ==
    LET entered == fixGrammarEnter(t, options) IN
    IF outcome.settled
    THEN fixGrammarResume(entered, t,
                          [threw |-> outcome.threw, value |-> outcome.value,
                           error |-> outcome.error])
    ELSE entered

----------------------------------------------------------------------------
(* The HTTP interface. *)

\* the request handled is a POST to /grammar/fix whose body was received
\* as a JSON object (an empty body counts as {})
FixRequestWithObject ==
    /\ request.method = "POST"
    /\ Route(request.url) = "fix"
    /\ requestBody.kind \in {"empty", "json"}
    /\ requestBody.value.kind = "object"

\* C14: a POST /grammar/fix whose text field is missing, empty or not a
\* string is answered with status 400, never with 5xx or 200.
C14_InvalidTextAnswered400 ==
    (srvPc = "responded" /\ FixRequestWithObject
     /\ InvalidTextArg(requestBody.value.text)) =>
        /\ Len(responses) = 1
        /\ responses[1].status = 400

\* C15: every response the server sends, whatever the path, method and
\* status, carries the four security headers X-Content-Type-Options:
\* nosniff, X-Frame-Options: DENY, X-XSS-Protection: 1; mode=block and
\* Strict-Transport-Security.
C15_EveryResponseHasSecurityHeaders ==
    \A k \in 1..Len(responses) : SecurityHeaders \subseteq responses[k].headers

\* C16: for a POST /grammar/fix that supplies no options, the LLM call is
\* made to the host of OLLAMA_HOST with the model of OLLAMA_MODEL, and to
\* http://localhost:11434 and gemma3 only when the variables are unset.
C16_ConfiguredByEnvironment ==
    (FixRequestWithObject /\ ~requestBody.value.options.given /\ ollamaRequest.made) =>
        /\ ollamaRequest.host = OrElse(env.OLLAMA_HOST, DefaultHost)
        /\ ollamaRequest.model = OrElse(env.OLLAMA_MODEL, DefaultModel)

----------------------------------------------------------------------------
(* applyCorrections and its arguments. *)

Overlap(a, b) ==
    /\ a.location.start < b.location.end
    /\ b.location.start < a.location.end
TiesOrOverlaps(corrs) ==
    \E i \in 1..Len(corrs), j \in 1..Len(corrs) :
        /\ i < j
        /\ \/ corrs[i].location.start = corrs[j].location.start
           \/ Overlap(corrs[i], corrs[j])

\* the one order in which a batch is applied: highest start first, and
\* corrections with the same start in the order of the batch
ApplyOrder(corrs) ==
    CHOOSE f \in Permutations(1..Len(corrs)) :
        \A i \in 1..Len(corrs), j \in 1..Len(corrs) :
            i < j =>
                \/ corrs[f[i]].location.start > corrs[f[j]].location.start
                \/ /\ corrs[f[i]].location.start = corrs[f[j]].location.start
                   /\ f[i] < f[j]

\* the splices made one after the other, the first k of the order f
RECURSIVE SplicedInOrder(_, _, _, _)
SplicedInOrder(txt, corrs, f, k) ==
    IF k = 0 THEN txt
    ELSE Splice(SplicedInOrder(txt, corrs, f, k - 1), corrs[f[k]])

\* C22: for a batch with equal starts or overlapping spans applyCorrections
\* still returns a string, and always the same one for the same text and
\* batch: the splices made highest start first, equal starts in the
\* order of the batch.
C22_TiesAndOverlapsDeterministic ==
    (applyPc = "returned" /\ TiesOrOverlaps(applyBatch)) =>
        correctedText =
            SplicedInOrder(applyText, applyBatch, ApplyOrder(applyBatch),
                           Len(applyBatch))

\* two corrections with the same start, for which the other order of
\* splicing would give another string
C22_Witness ==
    /\ applyPc = "returned"
    /\ Len(applyBatch) = 2
    /\ applyBatch[1].location.start = applyBatch[2].location.start
    /\ Splice(Splice(applyText, applyBatch[2]), applyBatch[1]) # correctedText
    /\ correctedText = Splice(Splice(applyText, applyBatch[1]), applyBatch[2])

----------------------------------------------------------------------------
(* Explanations. *)

\* an object has an explanation field
HasExplanation(c) == c.explanation # Undefined

\* C23: a correction of the batch has an explanation exactly when the
\* suggestion it comes from had one, with the same value, and an
\* explanation that is present is a string.
C23_ExplanationCarriedThrough ==
    pc = "resolved" =>
        \A i \in 1..Len(Batch) :
            /\ \E k \in 1..Len(corrections) :
                   /\ corrections[k].oldText = Batch[i].oldText
                   /\ corrections[k].newText = Batch[i].newText
                   /\ corrections[k].explanation = Batch[i].explanation
            /\ HasExplanation(Batch[i]) =>
                   TypeOf(Batch[i].explanation) = "string"

----------------------------------------------------------------------------
(* Shutdown. *)

\* C24: once the server process has received SIGTERM or SIGINT it accepts
\* no more connections and eventually exits, also when a second signal
\* arrives during the shutdown: with code 0 when the server has closed
\* before a timer fired, with code 1 when a timer fired first.
C24_GracefulShutdown ==
    /\ [](signals # <<>> => ~listening)
    /\ [](exit.exited =>
            /\ signals # <<>>
            /\ exit.code \in {0, 1}
            /\ exit.code = 0 => connections = 0)
    /\ [][exit.exited => UNCHANGED exit]_vars
    /\ (signals # <<>> ~> exit.exited)

\* two signals came while a connection stayed open, and the process has
\* exited with code 1
C24_Witness ==
    /\ Len(signals) = 2
    /\ connections > 0
    /\ exit = Exited(1)

----------------------------------------------------------------------------
(* The command line program. *)

\* the lines the k-th call of processText wrote
LinesOf(k) == SelectSeq(console, LAMBDA l : l.call = k)
KindsOf(k) == {LinesOf(k)[i].kind : i \in 1..Len(LinesOf(k))}

\* the texts passed to processText so far
TextsProcessed == [k \in 1..Len(processTextCalls) |-> processTextCalls[k].text]

\* main runs the example texts
RunsExamples ==
    processTextCalls # <<>> /\ processTextCalls[1].source = "example"

\* C25: when fixGrammar fails for a text, with a connectivity error or any
\* other, processText writes the error to console.error and ends without
\* throwing, and writes neither corrections nor a corrected text for it;
\* over the example texts a failure does not stop the later texts from
\* being processed, in order.
C25_ProcessTextHandlesFailure ==
    /\ \A k \in 1..Len(processTextCalls) :
           processTextCalls[k].settled = "rejected" =>
               /\ \E i \in 1..Len(LinesOf(k)) :
                      /\ LinesOf(k)[i].stream = "error"
                      /\ LinesOf(k)[i].kind = "processing"
                      /\ LinesOf(k)[i].value = processTextCalls[k].error.message
               /\ KindsOf(k) \subseteq {"original", "processing", "ensure"}
               /\ cliPc # "processTextRejected"
               /\ ~cliExit.exited
    /\ RunsExamples =>
           /\ TextsProcessed = SubSeq(exampleTexts, 1, Len(processTextCalls))
           /\ cliPc = "done" => TextsProcessed = exampleTexts

\* the first example failed to connect, the second failed otherwise, and
\* the third was still processed, to a correction
C25_Witness ==
    /\ cliPc = "done"
    /\ RunsExamples
    /\ Len(processTextCalls) = 3
    /\ processTextCalls[1].settled = "rejected"
    /\ processTextCalls[1].error = UnableToConnectError
    /\ processTextCalls[2].settled = "rejected"
    /\ processTextCalls[2].error # UnableToConnectError
    /\ processTextCalls[3].settled = "resolved"

\* C30: started with an input source selected on the command line (inline
\* text, --file with a readable file, or --stdin), main calls processText
\* exactly once, with the text read from that source, and never processes
\* the example texts; these are processed only when no argument is given.
C30_SelectedSourceProcessedOnce ==
    /\ (cliPc = "done" /\ argv # <<>> /\ argv[1] \notin HelpFlags) =>
           /\ Len(processTextCalls) = 1
           /\ processTextCalls[1].text = inputText
           /\ processTextCalls[1].source = inputSource
    /\ RunsExamples => argv = <<>>
    /\ (cliPc = "done" /\ argv = <<>>) => TextsProcessed = exampleTexts


----------------------------------------------------------------------------
(* POST /grammar/apply and its input. *)

\* the request handled is a POST to /grammar/apply whose body was
\* received as a JSON object (an empty body counts as {})
ApplyRequestWithObject ==
    /\ request.method = "POST"
    /\ Route(request.url) = "apply"
    /\ requestBody.kind \in {"empty", "json"}
    /\ requestBody.value.kind = "object"

\* the corrections field is an array of objects with a numeric
\* location.start and location.end
WellFormedCorrections(c) ==
    /\ c.json = "array"
    /\ \A k \in 1..Len(c.value) :
        /\ c.value[k].location.start \in Int
        /\ c.value[k].location.end \in Int

\* C26: POST /grammar/apply validates its input before applying: when
\* text is not a non-empty string, or corrections is not an array of
\* objects with numeric location.start and location.end, the response is
\* 400 and carries no correctedText; it is never 500 nor 200.
C26_ApplyValidatesInput ==
    (srvPc = "responded" /\ ApplyRequestWithObject
     /\ (\/ InvalidTextArg(requestBody.value.text)
         \/ ~WellFormedCorrections(requestBody.value.corrections))) =>
        /\ Len(responses) = 1
        /\ responses[1].status = 400

\* the request was routed and is not waiting for the rest of its body
RequestInHandler == request # NoHttpRequest /\ srvPc # "parsing"

\* C27: every request whose body is fully received (and every request
\* answered without reading a body) gets exactly one response: whatever
\* the path, the method and the outcome of parsing, fixGrammar and
\* applyCorrections, one response is eventually written, and a response
\* once written is never followed by a second one.
C27_ExactlyOneResponse ==
    /\ [](Len(responses) <= 1)
    /\ [](responses # <<>> <=> srvPc = "responded")
    /\ [][responses # <<>> => responses' = responses]_vars
    /\ (RequestInHandler ~> Len(responses) = 1)

\* a POST /grammar/fix was answered after its LLM call had settled
C27_Witness ==
    /\ requestBody.kind = "json"
    /\ Route(request.url) = "fix"
    /\ pc = "resolved"
    /\ srvPc = "responded"
    /\ Len(responses) = 1
    /\ responses[1].status = 200

----------------------------------------------------------------------------
(* The search cursor of the reconciler. *)

\* the batch reconciled from the first k suggestions
BatchAfter(k) == processCorrections(Original, Prefix(corrections, k))

\* C28: a valid suggestion yields a correction if and only if its oldText
\* occurs in the original text at or after the cursor (the end of the last
\* accepted correction, 0 at first); the correction is bound to the first
\* such occurrence; a suggestion whose oldText occurs only before the
\* cursor is dropped.
C28_BoundAtOrAfterCursor ==
    pc = "resolved" =>
        /\ Batch = BatchAfter(Len(corrections))
        /\ \A k \in 1..Len(corrections) :
            LET before == BatchAfter(k - 1)
                after == BatchAfter(k)
                sub == corrections[k].oldText.s
                p == LeastOccurrence(Original, sub, EndOfLast(before))
            IN /\ Prefix(after, Len(before)) = before
               /\ IF p = -1
                  THEN after = before
                  ELSE /\ Len(after) = Len(before) + 1
                       /\ after[Len(after)].location =
                              [start |-> p, end |-> p + Len(sub)]
                       /\ after[Len(after)].oldText = corrections[k].oldText
                       /\ after[Len(after)].newText = corrections[k].newText

\* C28 witness: the second suggestion's oldText occurs in the text, but
\* only before the end of the first correction, and it is dropped
C28_Witness ==
    /\ pc = "resolved"
    /\ Len(corrections) = 2
    /\ Len(Batch) = 1
    /\ Batch[1].oldText = corrections[1].oldText
    /\ OccursIn(Original, corrections[2].oldText.s)
    /\ LeastOccurrence(Original, corrections[2].oldText.s,
                       Batch[1].location.end) = -1

\* the suggestions that yield a correction, and the list without the others
Kept == {k \in 1..Len(corrections) : Len(BatchAfter(k)) > Len(BatchAfter(k - 1))}
WithoutDropped == Restrict(corrections, Kept, 1)

\* C29: a dropped suggestion leaves the search cursor unchanged: the batch
\* is the one reconciled from the suggestion list with every dropped
\* suggestion removed, and the cursor after a dropped suggestion is the
\* cursor before it.
C29_DroppedLeavesCursor ==
    pc = "resolved" =>
        /\ Batch = processCorrections(Original, WithoutDropped)
        /\ \A k \in 1..Len(corrections) :
            k \notin Kept =>
                ProcessLoop(Original, corrections, k).searchStartIndex =
                    ProcessLoop(Original, corrections, k - 1).searchStartIndex

\* C29 witness: the first suggestion is dropped and the second is bound to
\* an occurrence that is not the start of the text
C29_Witness ==
    /\ pc = "resolved"
    /\ Len(corrections) = 2
    /\ Kept = {2}
    /\ Len(Batch) = 1
    /\ Batch[1].location.start > 0
====
